---- MODULE Spec2Model ----
(***************************************************************************)
(* QWaitCondition on pthreads (src/corelib/thread/qwaitcondition_unix.cpp). *)
(* One QWaitCondition object, one QMutex and one QReadWriteLock shared by   *)
(* NThreads threads.  Every thread repeatedly locks or unlocks one of the   *)
(* caller locks, calls wait() on the lock it holds, or calls wakeOne() or   *)
(* wakeAll().  A step is a source statement, or a run of statements that no *)
(* other thread can observe because d->mutex is held throughout.            *)
(***************************************************************************)
EXTENDS Integers, FiniteSets

\* Number of threads sharing the objects.
NThreads == 2
\* Deepest recursive lockForWrite() a thread performs.
MaxDepth == 2
\* Largest surplus of wakeOne() calls over true returns that is counted.
MaxCredit == 2

Threads == 1..NThreads
NoThread == 0

VARIABLES
    mutex,          \* d->mutex: the thread holding it, or NoThread
    cond,           \* d->cond: the threads blocked in pthread_cond_(timed)wait
    waiters,        \* d->waiters
    wakeups,        \* d->wakeups
    qmutex,         \* the caller's QMutex: its holder, or NoThread
    rwWriter,       \* the caller's QReadWriteLock: the writer, or NoThread
    rwDepth,        \*   depth of the writer's recursive lockForWrite()
    rwReaders,      \*   the threads holding it for read
    pc,             \* where each thread stands
    arg,            \* the lock a thread's current (or last) wait() was given
    deadline,       \* that wait's deadline: "forever" or "bounded"
    code,           \* `code` in QWaitConditionPrivate::wait: what the
                    \*   primitive last returned, "none" before it has
    previousState,  \* `previousState` in wait(QReadWriteLock *, ...)
    returnValue,    \* what that wait returned: "none" until it returns
    warned,         \* qWarning() was called by that wait
    hist            \* history.  Of a thread inside wait: "quiet" when wakeups
                    \*   was 0 as it incremented waiters, "armed" when it was
                    \*   not, "hit" once a wakeOne/wakeAll has set wakeups since.
                    \*   Of a thread whose last call was a wakeOne that found
                    \*   waiters = 0: "idleWake".
VARIABLE
    credit          \* history: the wakeOne() calls that have set wakeups less
                    \*   the wait() calls that have come back true, counted up
                    \*   to MaxCredit; CreditOff when it is not counted

vars == <<mutex, cond, waiters, wakeups, qmutex, rwWriter, rwDepth, rwReaders,
          pc, arg, deadline, code, previousState, returnValue, warned,
          hist, credit>>

condVars == <<mutex, cond, waiters, wakeups>>
lockVars == <<qmutex, rwWriter, rwDepth, rwReaders>>
callVars == <<arg, deadline, code, previousState, returnValue, warned>>

Code0 == "0"
ETIMEDOUT == "ETIMEDOUT"
EINVAL == "EINVAL"

qMin(a, b) == IF a < b THEN a ELSE b

\* No count is kept: from the start, or once a wakeAll() has been made.
CreditOff == MaxCredit + 1

\* The objects as constructed, every thread outside any call.
Start ==
    /\ mutex = NoThread
    /\ cond = {}
    /\ waiters = 0
    /\ wakeups = 0
    /\ qmutex = NoThread
    /\ rwWriter = NoThread
    /\ rwDepth = 0
    /\ rwReaders = {}
    /\ pc = [t \in Threads |-> "idle"]
    /\ arg = [t \in Threads |-> "none"]
    /\ deadline = [t \in Threads |-> "none"]
    /\ code = [t \in Threads |-> "none"]
    /\ previousState = [t \in Threads |-> "none"]
    /\ returnValue = [t \in Threads |-> "none"]
    /\ warned = [t \in Threads |-> FALSE]
    /\ hist = [t \in Threads |-> "none"]

Init == Start /\ credit = CreditOff

\* The same, with wakeOne() calls and true returns counted from here on.
CountInit == Start /\ credit = 0

----------------------------------------------------------------------------
(* The caller's locks.                                                      *)

HoldsQMutex(t) == qmutex = t
HoldsRead(t) == t \in rwReaders
HoldsWrite(t) == rwWriter = t
HoldsNothing(t) == ~HoldsQMutex(t) /\ ~HoldsRead(t) /\ ~HoldsWrite(t)

\* QReadWriteLock::stateForWaitCondition()
stateForWaitCondition ==
    IF rwWriter # NoThread
    THEN (IF rwDepth > 1 THEN "RecursivelyLocked" ELSE "LockedForWrite")
    ELSE (IF rwReaders # {} THEN "LockedForRead" ELSE "Unlocked")

\* The record of a thread's last wait() is dropped when it does anything else.
Forget(t) ==
    /\ arg' = [arg EXCEPT ![t] = "none"]
    /\ deadline' = [deadline EXCEPT ![t] = "none"]
    /\ code' = [code EXCEPT ![t] = "none"]
    /\ previousState' = [previousState EXCEPT ![t] = "none"]
    /\ returnValue' = [returnValue EXCEPT ![t] = "none"]
    /\ warned' = [warned EXCEPT ![t] = FALSE]
    /\ hist' = [hist EXCEPT ![t] = "none"]

\* QMutex::lock()
QMutexLock(t) ==
    /\ pc[t] = "idle"
    /\ HoldsNothing(t)
    /\ qmutex = NoThread
    /\ qmutex' = t
    /\ Forget(t)
    /\ UNCHANGED <<condVars, rwWriter, rwDepth, rwReaders, pc>>
    /\ UNCHANGED credit

\* QMutex::unlock()
QMutexUnlock(t) ==
    /\ pc[t] = "idle"
    /\ HoldsQMutex(t)
    /\ qmutex' = NoThread
    /\ Forget(t)
    /\ UNCHANGED <<condVars, rwWriter, rwDepth, rwReaders, pc>>
    /\ UNCHANGED credit

\* QReadWriteLock::lockForRead()
LockForRead(t) ==
    /\ pc[t] = "idle"
    /\ HoldsNothing(t)
    /\ rwWriter = NoThread
    /\ rwReaders' = rwReaders \cup {t}
    /\ Forget(t)
    /\ UNCHANGED <<condVars, qmutex, rwWriter, rwDepth, pc>>
    /\ UNCHANGED credit

\* QReadWriteLock::lockForWrite(), recursive for the writer itself
LockForWrite(t) ==
    /\ pc[t] = "idle"
    /\ \/ HoldsNothing(t) /\ rwWriter = NoThread /\ rwReaders = {}
       \/ HoldsWrite(t) /\ rwDepth < MaxDepth
    /\ rwWriter' = t
    /\ rwDepth' = rwDepth + 1
    /\ Forget(t)
    /\ UNCHANGED <<condVars, qmutex, rwReaders, pc>>
    /\ UNCHANGED credit

\* QReadWriteLock::unlock()
RWUnlock(t) ==
    /\ pc[t] = "idle"
    /\ \/ /\ HoldsWrite(t)
          /\ rwDepth' = rwDepth - 1
          /\ rwWriter' = IF rwDepth = 1 THEN NoThread ELSE t
          /\ UNCHANGED rwReaders
       \/ /\ HoldsRead(t)
          /\ rwReaders' = rwReaders \ {t}
          /\ UNCHANGED <<rwWriter, rwDepth>>
    /\ Forget(t)
    /\ UNCHANGED <<condVars, qmutex, pc>>
    /\ UNCHANGED credit

----------------------------------------------------------------------------
(* The pthread primitives on d->mutex and d->cond.                          *)

\* pthread_mutex_lock(&d->mutex) returns once the mutex is free.
pthread_mutex_lock(t) ==
    /\ mutex = NoThread
    /\ mutex' = t

\* d->mutex left as it is.
pthread_mutex_unlock_Noop(t) ==
    /\ mutex' = mutex

\* pthread_mutex_unlock(&d->mutex)
pthread_mutex_unlock(t) ==
    /\ mutex' = NoThread

\* The threads counted in waiters that do not hold d->mutex.
Parked == {u \in Threads : pc[u] \in {"parked", "woken"}}

----------------------------------------------------------------------------
(* QWaitCondition::wait(QMutex *, QDeadlineTimer)                           *)

\* d->mutex taken without ++d->waiters.
Enter_NoCount(t) ==
    /\ pthread_mutex_lock(t)
    /\ hist' = [hist EXCEPT ![t] = IF wakeups = 0 THEN "quiet" ELSE "armed"]
    /\ pc' = [pc EXCEPT ![t] = "rel"]
    /\ UNCHANGED waiters

\* ++d->waiters without d->mutex taken.
Enter_NoMutex(t) ==
    /\ waiters' = waiters + 1
    /\ hist' = [hist EXCEPT ![t] = IF wakeups = 0 THEN "quiet" ELSE "armed"]
    /\ pc' = [pc EXCEPT ![t] = "rel"]
    /\ UNCHANGED mutex

\* pthread_mutex_lock(&d->mutex); ++d->waiters;
Enter(t) ==
    /\ pthread_mutex_lock(t)
    /\ waiters' = waiters + 1
    /\ hist' = [hist EXCEPT ![t] = IF wakeups = 0 THEN "quiet" ELSE "armed"]
    /\ pc' = [pc EXCEPT ![t] = "rel"]

(* The call, with the caller's QMutex held, up to and including             *)
(* ++d->waiters; the deadline is a parameter.                               *)
WaitMutexCall(t, dl) ==
    /\ pc[t] = "idle"
    /\ HoldsQMutex(t)
    /\ Enter(t)
    /\ arg' = [arg EXCEPT ![t] = "QMutex"]
    /\ deadline' = [deadline EXCEPT ![t] = dl]
    /\ code' = [code EXCEPT ![t] = "none"]
    /\ previousState' = [previousState EXCEPT ![t] = "none"]
    /\ returnValue' = [returnValue EXCEPT ![t] = "none"]
    /\ warned' = [warned EXCEPT ![t] = FALSE]
    /\ UNCHANGED <<cond, wakeups, lockVars>>
    /\ UNCHANGED credit

\* The test for Unlocked left out.
IsUnlocked_Never(s) == FALSE

\* previousState == QReadWriteLock::Unlocked
IsUnlocked(s) == s = "Unlocked"

\* The test for RecursivelyLocked left out.
IsRecursivelyLocked_Never(s) == FALSE

\* previousState == QReadWriteLock::RecursivelyLocked
IsRecursivelyLocked(s) == s = "RecursivelyLocked"

(* QWaitCondition::wait(QReadWriteLock *, QDeadlineTimer) up to its early   *)
(* returns or, past them, ++d->waiters.  The caller holds the lock for read *)
(* or for write (at any depth), or nobody holds it.                         *)
WaitRWCall(t, dl) ==
    /\ pc[t] = "idle"
    /\ \/ HoldsRead(t)
       \/ HoldsWrite(t)
       \/ HoldsNothing(t) /\ stateForWaitCondition = "Unlocked"
    /\ arg' = [arg EXCEPT ![t] = "QReadWriteLock"]
    /\ code' = [code EXCEPT ![t] = "none"]
    /\ previousState' = [previousState EXCEPT ![t] = stateForWaitCondition]
    /\ IF IsUnlocked(stateForWaitCondition)
       THEN /\ returnValue' = [returnValue EXCEPT ![t] = "false"]
            /\ warned' = [warned EXCEPT ![t] = FALSE]
            /\ deadline' = [deadline EXCEPT ![t] = "none"]
            /\ hist' = [hist EXCEPT ![t] = "none"]
            /\ UNCHANGED <<pc, mutex, waiters>>
       ELSE IF IsRecursivelyLocked(stateForWaitCondition)
       THEN /\ returnValue' = [returnValue EXCEPT ![t] = "false"]
            /\ warned' = [warned EXCEPT ![t] = TRUE]
            /\ deadline' = [deadline EXCEPT ![t] = "none"]
            /\ hist' = [hist EXCEPT ![t] = "none"]
            /\ UNCHANGED <<pc, mutex, waiters>>
       ELSE /\ Enter(t)
            /\ returnValue' = [returnValue EXCEPT ![t] = "none"]
            /\ warned' = [warned EXCEPT ![t] = FALSE]
            /\ deadline' = [deadline EXCEPT ![t] = dl]
    /\ UNCHANGED <<cond, wakeups, lockVars>>
    /\ UNCHANGED credit

\* mutex->unlock(), or readWriteLock->unlock()
WaitUnlockCaller(t) ==
    /\ pc[t] = "rel"
    /\ IF arg[t] = "QMutex"
       THEN /\ qmutex' = NoThread
            /\ UNCHANGED <<rwWriter, rwDepth, rwReaders>>
       ELSE IF rwWriter = t
       THEN /\ rwDepth' = rwDepth - 1
            /\ rwWriter' = IF rwDepth = 1 THEN NoThread ELSE t
            /\ UNCHANGED <<qmutex, rwReaders>>
       ELSE /\ rwReaders' = rwReaders \ {t}
            /\ UNCHANGED <<qmutex, rwWriter, rwDepth>>
    /\ pc' = [pc EXCEPT ![t] = "call"]
    /\ UNCHANGED <<condVars, callVars, hist>>
    /\ UNCHANGED credit

----------------------------------------------------------------------------
(* QWaitConditionPrivate::wait(QDeadlineTimer), entered holding d->mutex.   *)

\* The primitive blocking without releasing d->mutex.
CondWait_KeepMutex(t) ==
    /\ pc[t] = "call"
    /\ cond' = cond \cup {t}
    /\ pc' = [pc EXCEPT ![t] = "parked"]
    /\ UNCHANGED <<mutex, waiters, wakeups, lockVars, callVars, hist, credit>>

(* pthread_cond_wait / pthread_cond_timedwait: the thread joins the waiters *)
(* of d->cond and releases d->mutex in one atomic step.                     *)
CondWait(t) ==
    /\ pc[t] = "call"
    /\ cond' = cond \cup {t}
    /\ pthread_mutex_unlock(t)
    /\ pc' = [pc EXCEPT ![t] = "parked"]
    /\ UNCHANGED <<waiters, wakeups, lockVars, callVars, hist>>
    /\ UNCHANGED credit

(* pthread_cond_timedwait, which a bounded wait calls, finds the deadline    *)
(* passed: the thread stops waiting on d->cond.                             *)
CondTimeout(t) ==
    /\ pc[t] = "parked"
    /\ deadline[t] = "bounded"
    /\ cond' = cond \ {t}
    /\ code' = [code EXCEPT ![t] = ETIMEDOUT]
    /\ pc' = [pc EXCEPT ![t] = "woken"]
    /\ UNCHANGED <<mutex, waiters, wakeups, lockVars, arg, deadline,
                   previousState, returnValue, warned, hist>>
    /\ UNCHANGED credit

\* A spurious wakeup: the primitive is about to return 0 with no signal sent.
CondSpurious(t) ==
    /\ pc[t] = "parked"
    /\ cond' = cond \ {t}
    /\ code' = [code EXCEPT ![t] = Code0]
    /\ pc' = [pc EXCEPT ![t] = "woken"]
    /\ UNCHANGED <<mutex, waiters, wakeups, lockVars, arg, deadline,
                   previousState, returnValue, warned, hist>>
    /\ UNCHANGED credit

\* The spurious-wakeup test left out.
IsSpurious_Never(c) == FALSE

\* The test made on waiters instead of wakeups.
IsSpurious_WrongCounter(c) == c = Code0 /\ waiters = 0

\* code == 0 && wakeups == 0
IsSpurious(c) == c = Code0 /\ wakeups = 0

\* wakeups with the decrement left out.
WakeupsAfter_Kept(c) == wakeups

\* if (code == 0) --wakeups;
WakeupsAfter(c) == IF c = Code0 THEN wakeups - 1 ELSE wakeups

(* The rest of QWaitConditionPrivate::wait once the primitive has returned  *)
(* c with d->mutex held:                                                    *)
(*   if (code == 0 && wakeups == 0) continue;   -- blocks again             *)
(*   --waiters; if (code == 0) --wakeups;                                   *)
(*   pthread_mutex_unlock(&d->mutex); return (code == 0);                   *)
AfterCondWait(t, c) ==
    IF IsSpurious(c)
    THEN /\ cond' = cond \cup {t}
         /\ pthread_mutex_unlock(t)
         /\ pc' = [pc EXCEPT ![t] = "parked"]
         /\ code' = [code EXCEPT ![t] = c]
         /\ UNCHANGED <<waiters, wakeups, deadline, returnValue, hist, credit>>
    ELSE /\ waiters' = waiters - 1
         /\ wakeups' = WakeupsAfter(c)
         /\ pthread_mutex_unlock(t)
         /\ returnValue' = [returnValue EXCEPT
                              ![t] = IF c = Code0 THEN "true" ELSE "false"]
         /\ pc' = [pc EXCEPT ![t] = "relock"]
         /\ deadline' = [deadline EXCEPT ![t] = "none"]
         /\ code' = [code EXCEPT ![t] = c]
         /\ hist' = [hist EXCEPT ![t] = "none"]
         /\ credit' = IF c = Code0 /\ credit # CreditOff THEN credit - 1 ELSE credit
         /\ UNCHANGED cond

(* The primitive reacquires d->mutex and returns `code`; wait() goes on to  *)
(* its pthread_mutex_unlock or to the next pthread_cond_(timed)wait.        *)
CondReturn(t) ==
    /\ pc[t] = "woken"
    /\ mutex = NoThread
    /\ AfterCondWait(t, code[t])
    /\ UNCHANGED <<lockVars, arg, previousState, warned>>

(* The primitive fails with an error other than ETIMEDOUT: it returns at   *)
(* once, d->mutex still held, and wait() goes on as above.                  *)
CondWaitFail(t) ==
    /\ pc[t] = "call"
    /\ AfterCondWait(t, EINVAL)
    /\ UNCHANGED <<lockVars, arg, previousState, warned>>

\* The lock always reacquired with lockForRead().
WasLockedForWrite_Never(t) == FALSE

\* previousState == QReadWriteLock::LockedForWrite
WasLockedForWrite(t) == previousState[t] = "LockedForWrite"

\* wait() returning without reacquiring the caller's lock.
WaitRelock_NoLock(t) ==
    /\ pc[t] = "relock"
    /\ pc' = [pc EXCEPT ![t] = "idle"]
    /\ UNCHANGED <<condVars, lockVars, callVars, hist>>
    /\ UNCHANGED credit

(* mutex->lock(), or readWriteLock->lockForWrite() / lockForRead() by       *)
(* previousState; then return returnValue.                                  *)
WaitRelock(t) ==
    /\ pc[t] = "relock"
    /\ IF arg[t] = "QMutex"
       THEN /\ qmutex = NoThread
            /\ qmutex' = t
            /\ UNCHANGED <<rwWriter, rwDepth, rwReaders>>
       ELSE IF WasLockedForWrite(t)
       THEN /\ rwWriter = NoThread
            /\ rwReaders = {}
            /\ rwWriter' = t
            /\ rwDepth' = 1
            /\ UNCHANGED <<qmutex, rwReaders>>
       ELSE /\ rwWriter = NoThread
            /\ rwReaders' = rwReaders \cup {t}
            /\ UNCHANGED <<qmutex, rwWriter, rwDepth>>
    /\ pc' = [pc EXCEPT ![t] = "idle"]
    /\ UNCHANGED <<condVars, callVars, hist>>
    /\ UNCHANGED credit

----------------------------------------------------------------------------
(* QWaitCondition::wakeOne() and QWaitCondition::wakeAll()                  *)

\* The call and pthread_mutex_lock(&d->mutex).
WakeOneLock(t) ==
    /\ pc[t] = "idle"
    /\ pthread_mutex_lock(t)
    /\ pc' = [pc EXCEPT ![t] = "wo_set"]
    /\ Forget(t)
    /\ UNCHANGED <<cond, waiters, wakeups, lockVars>>
    /\ UNCHANGED credit

\* The increment without the clamp to waiters.
WakeOneCount_NoClamp == wakeups + 1

\* qMin(d->wakeups + 1, d->waiters)
WakeOneCount == qMin(wakeups + 1, waiters)

(* d->wakeups = qMin(d->wakeups + 1, d->waiters);                           *)
(* pthread_cond_signal(&d->cond): one thread blocked on d->cond, if there   *)
(* is one, stops waiting; pthread_mutex_unlock(&d->mutex).                  *)
WakeOne(t) ==
    /\ pc[t] = "wo_set"
    /\ wakeups' = WakeOneCount
    /\ credit' = IF credit = CreditOff THEN CreditOff ELSE qMin(credit + 1, MaxCredit)
    /\ hist' = [u \in Threads |->
                  IF u \in Parked THEN "hit"
                  ELSE IF u = t /\ waiters = 0 THEN "idleWake"
                  ELSE hist[u]]
    /\ \/ /\ cond = {}
          /\ pc' = [pc EXCEPT ![t] = "idle"]
          /\ UNCHANGED <<cond, code>>
       \/ \E u \in cond :
             /\ cond' = cond \ {u}
             /\ code' = [code EXCEPT ![u] = Code0]
             /\ pc' = [pc EXCEPT ![t] = "idle", ![u] = "woken"]
    /\ pthread_mutex_unlock(t)
    /\ UNCHANGED <<waiters, lockVars, arg, deadline, previousState,
                   returnValue, warned>>

\* The call and pthread_mutex_lock(&d->mutex).
WakeAllLock(t) ==
    /\ pc[t] = "idle"
    /\ pthread_mutex_lock(t)
    /\ pc' = [pc EXCEPT ![t] = "wa_set"]
    /\ Forget(t)
    /\ UNCHANGED <<cond, waiters, wakeups, lockVars>>
    /\ UNCHANGED credit

(* d->wakeups = d->waiters; pthread_cond_broadcast(&d->cond): every thread  *)
(* blocked on d->cond stops waiting; pthread_mutex_unlock(&d->mutex).       *)
WakeAll(t) ==
    /\ pc[t] = "wa_set"
    /\ wakeups' = waiters
    /\ credit' = CreditOff
    /\ hist' = [u \in Threads |-> IF u \in Parked THEN "hit" ELSE hist[u]]
    /\ cond' = {}
    /\ code' = [u \in Threads |-> IF u \in cond THEN Code0 ELSE code[u]]
    /\ pc' = [u \in Threads |->
                IF u = t THEN "idle" ELSE IF u \in cond THEN "woken" ELSE pc[u]]
    /\ pthread_mutex_unlock(t)
    /\ UNCHANGED <<waiters, lockVars, arg, deadline, previousState,
                   returnValue, warned>>

----------------------------------------------------------------------------
Deadlines == {"forever", "bounded"}

\* The calls a thread makes.
Caller(t) ==
    \/ QMutexLock(t)
    \/ QMutexUnlock(t)
    \/ LockForRead(t)
    \/ LockForWrite(t)
    \/ RWUnlock(t)
    \/ \E dl \in Deadlines : WaitMutexCall(t, dl)
    \/ \E dl \in Deadlines : WaitRWCall(t, dl)
    \/ WakeOneLock(t)
    \/ WakeAllLock(t)

\* The steps inside a call that take a lock another thread may hold.
Acquire(t) ==
    \/ CondReturn(t)
    \/ WaitRelock(t)

\* The steps inside a call that a thread takes by itself once scheduled.
Proceed(t) ==
    \/ WaitUnlockCaller(t)
    \/ CondWait(t)
    \/ WakeOne(t)
    \/ WakeAll(t)

\* What the platform may do to a thread inside the blocking primitive.
Platform(t) ==
    \/ CondWaitFail(t)
    \/ CondTimeout(t)
    \/ CondSpurious(t)

Next == \E t \in Threads : Caller(t) \/ Acquire(t) \/ Proceed(t) \/ Platform(t)

Spec == Init /\ [][Next]_vars

\* The same program with the wakeOne() calls and true returns counted.
CountSpec == CountInit /\ [][Next]_vars

(* Every scheduled thread runs, no lock acquisition is starved, and a       *)
(* caller that holds a lock after its call returned releases it.  Nothing   *)
(* obliges a caller to make a new call, nor the platform to wake a thread   *)
(* that was not signalled.                                                  *)
Release(t) == QMutexUnlock(t) \/ RWUnlock(t)

FairSpec ==
    /\ Spec
    /\ \A t \in Threads : WF_vars(Proceed(t))
    /\ \A t \in Threads : SF_vars(Acquire(t))
    /\ \A t \in Threads : WF_vars(Release(t))

----------------------------------------------------------------------------
(* The claims.                                                              *)

\* The thread holds the lock its wait() was given, in the mode it had.
HoldsArg(t) ==
    IF arg[t] = "QMutex" THEN qmutex = t
    ELSE IF previousState[t] = "LockedForWrite"
    THEN rwWriter = t /\ rwDepth = 1 /\ t \notin rwReaders
    ELSE t \in rwReaders /\ rwWriter # t

\* The thread's wait() has just returned.
Returned(t) == pc[t] = "idle" /\ returnValue[t] # "none"

\* The thread's wait() has just returned and had released the caller's lock.
ReturnedFromWaiting(t) ==
    /\ Returned(t)
    /\ arg[t] = "QMutex" \/ previousState[t] \in {"LockedForRead", "LockedForWrite"}

(* C1: whenever no thread is inside a critical section of d->mutex,         *)
(* 0 <= wakeups <= waiters.                                                 *)
C1_CountersInRange ==
    mutex = NoThread => (0 <= wakeups /\ wakeups <= waiters)

\* QWaitConditionPrivate::wait has returned true; the caller's lock is retaken next.
Woke(t) == pc[t] \in {"relock", "idle"} /\ returnValue[t] = "true"

(* C2: when exactly one thread is parked in wait (here: in a wait without   *)
(* deadline) and another thread is in wakeOne(), the wait eventually comes  *)
(* back with true, and when it has returned the lock it passed in is held   *)
(* again.                                                                   *)
C2_SingleWaiterWake ==
    /\ \A t \in Threads : \A w \in Threads \ {t} :
          (pc[w] = "wo_set" /\ Parked = {t} /\ deadline[t] = "forever") ~> Woke(t)
    /\ [](\A t \in Threads : (Returned(t) /\ returnValue[t] = "true") => HoldsArg(t))

C4_BroadcastWake ==
    \A t \in Threads : \A w \in Threads \ {t} :
        (pc[w] = "wa_set" /\ t \in Parked /\ deadline[t] = "forever") ~> Woke(t)

(* C5: a bounded wait during which no wakeOne/wakeAll was made leaves       *)
(* QWaitConditionPrivate::wait with false, and with wakeups unchanged.      *)
C5_TimeoutReturnsFalse ==
    [][ \A t \in Threads :
           (pc[t] = "woken" /\ pc'[t] = "relock" /\ deadline[t] = "bounded"
              /\ hist[t] # "hit")
           => (returnValue'[t] = "false" /\ wakeups' = wakeups)
      ]_vars

(* C6: a wait that released the caller's lock has returned, whatever the    *)
(* primitive's last code, with that lock held again by the caller and       *)
(* d->mutex not held by it.                                                 *)
C6_LockSymmetry ==
    \A t \in Threads :
        ReturnedFromWaiting(t) => (HoldsArg(t) /\ mutex # t)

\* A wait has returned after the primitive failed.
C6_Witness ==
    \E t \in Threads : ReturnedFromWaiting(t) /\ code[t] = EINVAL

(* C7: a wait on a read-write lock holds nothing of it between its unlock() *)
(* and its return, and returns holding it in the mode it had on entry.      *)
C7_ModePreserved ==
    \A t \in Threads :
        arg[t] = "QReadWriteLock" =>
            /\ pc[t] \in {"call", "parked", "woken", "relock"}
                  => (rwWriter # t /\ t \notin rwReaders)
            /\ (Returned(t) /\ previousState[t] = "LockedForWrite")
                  => (rwWriter = t /\ rwDepth = 1 /\ t \notin rwReaders)
            /\ (Returned(t) /\ previousState[t] = "LockedForRead")
                  => (t \in rwReaders /\ rwWriter = NoThread)

\* A wait on a lock held for write has returned false.
C7_Witness ==
    \E t \in Threads :
        /\ Returned(t) /\ returnValue[t] = "false"
        /\ arg[t] = "QReadWriteLock" /\ previousState[t] = "LockedForWrite"

(* C8: the step in which wait(rwlock, deadline) reads Unlocked from the     *)
(* lock is its return of false: the thread takes no other step of wait,     *)
(* and d->mutex, d->cond, the counters and every lock are as before.        *)
C8_UnlockedReturnsAtOnce ==
    [][ \A t \in Threads :
           (previousState[t] # "Unlocked" /\ previousState'[t] = "Unlocked")
           => /\ pc'[t] = "idle" /\ returnValue'[t] = "false"
              /\ UNCHANGED <<condVars, lockVars>>
      ]_vars

\* A wait on an unlocked lock has returned while another thread is parked.
C8_Witness ==
    \E t \in Threads :
        /\ Returned(t) /\ previousState[t] = "Unlocked" /\ returnValue[t] = "false"
        /\ waiters > 0 /\ cond # {}

(* C9: the step in which wait(rwlock, deadline) reads RecursivelyLocked     *)
(* from the lock is its return of false, with the warning given: the lock   *)
(* keeps its writer and depth, and d->mutex, d->cond and the counters are   *)
(* as before.                                                               *)
C9_RecursiveReturnsAtOnce ==
    [][ \A t \in Threads :
           (previousState[t] # "RecursivelyLocked"
              /\ previousState'[t] = "RecursivelyLocked")
           => /\ pc'[t] = "idle" /\ returnValue'[t] = "false" /\ warned'[t]
              /\ UNCHANGED <<condVars, lockVars>>
      ]_vars

\* A wait on a recursively write-locked lock has returned, another thread parked.
C9_Witness ==
    \E t \in Threads :
        /\ Returned(t) /\ previousState[t] = "RecursivelyLocked" /\ warned[t]
        /\ rwWriter = t /\ rwDepth = MaxDepth
        /\ waiters > 0 /\ cond # {}

\* The primitive returned 0 while wakeups = 0: wait blocks again, counters kept.
Masked(t) ==
    (pc[t] = "woken" /\ pc'[t] # "woken" /\ code[t] = Code0 /\ wakeups = 0)
    => /\ pc'[t] = "parked" /\ t \in cond' /\ returnValue'[t] = "none"
       /\ waiters' = waiters /\ wakeups' = wakeups

\* QWaitConditionPrivate::wait returns in this step.
Leaves(t) == pc[t] \in {"call", "woken"} /\ pc'[t] = "relock"

\* It returns true, having consumed a unit of wakeups.
LeavesConsuming(t) ==
    /\ returnValue'[t] = "true" /\ code'[t] = Code0
    /\ wakeups > 0 /\ wakeups' = wakeups - 1

(* C10 as stated: a success of the primitive while wakeups = 0 is masked,   *)
(* and wait returns only true with a unit consumed, or false with the       *)
(* deadline passed.                                                         *)
C10_ReturnsOnlyOnWakeupOrTimeout ==
    [][ \A t \in Threads :
           /\ Masked(t)
           /\ Leaves(t) =>
                 \/ LeavesConsuming(t)
                 \/ /\ returnValue'[t] = "false" /\ code'[t] = ETIMEDOUT
                    /\ wakeups' = wakeups
      ]_vars

(* C10 as amended: ... or false with the primitive failed by an error       *)
(* other than ETIMEDOUT.                                                    *)
C10_SpuriousMasked ==
    [][ \A t \in Threads :
           /\ Masked(t)
           /\ Leaves(t) =>
                 \/ LeavesConsuming(t)
                 \/ /\ returnValue'[t] = "false" /\ code'[t] \in {ETIMEDOUT, EINVAL}
                    /\ wakeups' = wakeups
      ]_vars

(* The primitive returned 0 to a waiter while wakeups = 0, and the waiter    *)
(* is blocked on d->cond again without having returned.                     *)
C10_Witness ==
    \E t \in Threads :
        /\ pc[t] = "parked" /\ t \in cond /\ code[t] = Code0
        /\ returnValue[t] = "none" /\ wakeups = 0 /\ waiters > 0

----------------------------------------------------------------------------
(* C11: while no wakeAll() has been made, the wait calls that have come     *)
(* back true never outnumber the wakeOne() calls that have set wakeups.     *)
(* credit is the second number less the first; it stops growing at          *)
(* MaxCredit, which can only make it smaller than the true difference.      *)
C11_AtMostOnePerWakeOne ==
    credit # CreditOff => credit >= 0

(* One wakeOne() has been made and one wait has come back true for it,      *)
(* while another thread is still inside its wait with nothing to consume.   *)
C11_Witness ==
    \E t \in Threads : \E u \in Threads \ {t} :
        /\ Woke(t) /\ u \in Parked
        /\ credit = 0 /\ wakeups = 0

(* C12: a waiter whose primitive timed out, and which resumes under         *)
(* d->mutex with a unit pending from a wakeOne/wakeAll made during its      *)
(* wait, consumes the unit and returns true.                                *)
C12_WakeupBeforeTimeout ==
    [][ \A t \in Threads :
           (pc[t] = "woken" /\ pc'[t] = "relock" /\ code[t] = ETIMEDOUT
              /\ hist[t] = "hit" /\ wakeups > 0)
           => (returnValue'[t] = "true" /\ wakeups' = wakeups - 1)
      ]_vars

\* The threads inside wait that have released the caller's lock.
Released == {u \in Threads : pc[u] \in {"call", "parked", "woken"}}

\* A wakeOne() or wakeAll() executes its critical section in this step.
Wakes(w) == pc[w] \in {"wo_set", "wa_set"} /\ pc'[w] = "idle"

C14_WakeNeverBlocks ==
    /\ \A t \in Threads : (mutex = t) ~> (mutex = NoThread)
    /\ \A w \in Threads : (pc[w] \in {"wo_set", "wa_set"}) ~> (pc[w] = "idle")

(* A wakeOne() is in its critical section while its caller holds the        *)
(* read-write lock for write and a waiter is blocked reacquiring that lock. *)
C14_Witness ==
    \E w \in Threads : \E t \in Threads \ {w} :
        /\ pc[w] = "wo_set" /\ HoldsWrite(w)
        /\ pc[t] = "relock" /\ arg[t] = "QReadWriteLock"

(* C15: wakeups decreases only in a step in which a wait returns true, and  *)
(* then by exactly 1; and no unit is left pending when no waiter remains.   *)
C15_UnitConsumedOnce ==
    /\ [][ wakeups' < wakeups =>
              /\ wakeups' = wakeups - 1
              /\ \E t \in Threads : Leaves(t) /\ returnValue'[t] = "true"
       ]_vars
    /\ []((mutex = NoThread /\ waiters = 0) => wakeups = 0)

\* The threads that have executed ++waiters in wait and not yet --waiters.
InWait == {u \in Threads : pc[u] \in {"rel", "call", "parked", "woken"}}

(* C16: waiters is the number of threads that have executed the increment   *)
(* in wait and not yet the decrement; so it is 0 when no thread is inside.  *)
C16_WaitersCountsInWait ==
    waiters = Cardinality(InWait)

(* Two threads are counted with d->mutex free: one suspended, one whose     *)
(* primitive has timed out and which has not yet decremented.               *)
C16_Witness ==
    \E t \in Threads : \E u \in Threads \ {t} :
        /\ pc[t] = "parked" /\ pc[u] = "woken" /\ code[u] = ETIMEDOUT
        /\ mutex = NoThread /\ waiters = 2

(* C17: when a waiter leaves the loop waiters > 0, and when it leaves with  *)
(* code 0 also wakeups > 0; neither counter is ever negative.               *)
C17_AssertionsHold ==
    /\ [][ \A t \in Threads : Leaves(t) =>
              /\ waiters > 0
              /\ code'[t] = Code0 => wakeups > 0
       ]_vars
    /\ [](waiters >= 0 /\ wakeups >= 0)

\* A waiter has left with code 0 and taken both counters from 1 to 0.
C17_Witness ==
    \E t \in Threads :
        /\ pc[t] = "relock" /\ code[t] = Code0 /\ returnValue[t] = "true"
        /\ waiters = 0 /\ wakeups = 0

\* The primitive fails in this step with an error other than ETIMEDOUT.
Fails(t) == pc[t] = "call" /\ pc'[t] = "relock"

(* C18: when the primitive fails with an error other than ETIMEDOUT, wait   *)
(* returns false with waiters decremented by 1, wakeups as it was, d->mutex *)
(* released and 0 <= wakeups <= waiters; and when it has returned, the      *)
(* caller's lock is held again.                                             *)
C18_ErrorAccounting ==
    /\ [][ \A t \in Threads : Fails(t) =>
              /\ code'[t] = EINVAL /\ returnValue'[t] = "false"
              /\ waiters' = waiters - 1 /\ wakeups' = wakeups
              /\ mutex' = NoThread
              /\ 0 <= wakeups' /\ wakeups' <= waiters'
       ]_vars
    /\ [](\A t \in Threads :
            (ReturnedFromWaiting(t) /\ code[t] = EINVAL) => HoldsArg(t))

(* C19: a wait returns true only if a wakeOne/wakeAll set wakeups while the *)
(* thread was counted in waiters: a thread that entered wait after the wake *)
(* call completed does not consume its unit.                                *)
C19_NoTheftByLaterArrival ==
    [][ \A t \in Threads :
           (pc[t] = "woken" /\ pc'[t] = "relock" /\ hist[t] # "hit")
           => returnValue'[t] # "true"
      ]_vars

(* C20: a thread blocked acquiring the caller's lock does not hold d->mutex,*)
(* and the thread that holds d->mutex can always take its next step, which  *)
(* waits for no caller lock.                                                *)
C20_NoLockOrderDeadlock ==
    \A t \in Threads :
        /\ pc[t] = "relock" => mutex # t
        /\ mutex = t => (pc[t] \in {"rel", "call", "wo_set", "wa_set"}
                          /\ ENABLED Proceed(t))

(* A waiter is blocked reacquiring the QMutex that a notifier holds while   *)
(* the notifier is inside the critical section of wakeAll().                *)
C20_Witness ==
    \E w \in Threads : \E t \in Threads \ {w} :
        /\ pc[t] = "relock" /\ arg[t] = "QMutex"
        /\ HoldsQMutex(w) /\ pc[w] = "wa_set" /\ mutex = w

====
